---- MODULE Spec2Model ----
(***************************************************************************)
(* Model of deepctr/sequence.py: the four Keras layers                      *)
(*   SequencePoolingLayer, AttentionSequencePoolingLayer, BiLSTM and        *)
(*   AttentionSequencePoolingLayerv2.                                       *)
(*                                                                         *)
(* One batch row is modelled (every layer treats the rows of a batch        *)
(* independently).  A rank-3 tensor (1, T, E) is a sequence of T vectors,   *)
(* each a sequence of E integers; position t of the code (0-based) is       *)
(* index t+1 here.  Python exceptions are recorded by their class name in   *)
(* result.raised.                                                           *)
(***************************************************************************)
EXTENDS Integers, Sequences, FiniteSets, TLC

VARIABLES pc, args, layer, inputs, frame, result

vars == <<pc, args, layer, inputs, frame, result>>

----------------------------------------------------------------------------
(* Bounds of the model *)

\* longest padded sequence (max_length, T)
MaxLen == 2
\* largest LSTM width (units) and input width of BiLSTM
MaxUnits == 3
\* largest number of stacked BiLSTM levels
MaxLayers == 2

\* embedding widths of the pooled / attended sequences
EmbDims == {1, 2}
\* embedding entries of the pooled sequences
SeqVals == {-1, 0, 1}
\* embedding entries of queries and keys
KeyVals == {0, 1}
\* raw scores the scoring network can return for a position
ScoreVals == {-1, 1}
\* hidden_size and activation arguments of the attention layers
HiddenSizes == {<<80, 40>>, <<4>>}
Activations == {"sigmoid", "relu"}
\* entries of a BiLSTM input, its number of time steps, dropout in tenths
LstmVals == {0, 1}
Timesteps == 2
Dropouts == {0, 2}

----------------------------------------------------------------------------
(* Values shared by the layers *)

\* Python's None where an argument or an attribute may hold it
PyNone == "None"

\* no value: the slot of a variable that holds nothing yet
Nothing == [none |-> TRUE]

\* the mask argument of call: absent (mask=None) or a boolean row
NoMask == [present |-> FALSE, m |-> <<>>]

Masks(T) == {[present |-> TRUE, m |-> b] : b \in [1..T -> BOOLEAN]}

Vectors(E, vals) == [1..E -> vals]

Tensors(T, E, vals) == [1..T -> Vectors(E, vals)]

RECURSIVE SumUpTo(_, _)
\* f[1] + ... + f[n]
SumUpTo(f, n) == IF n = 0 THEN 0 ELSE SumUpTo(f, n - 1) + f[n]

Max(a, b) == IF a >= b THEN a ELSE b

RECURSIVE MaxUpTo(_, _)
\* the largest of f[1..n], n >= 1
MaxUpTo(f, n) == IF n = 1 THEN f[1] ELSE Max(MaxUpTo(f, n - 1), f[n])

\* the result of a call that returned `out` after running the stages `trace`
Returned(out, trace) == [raised |-> "", out |-> out, trace |-> trace]

\* the result of a call or constructor that raised before returning
Raised(exc, trace) == [raised |-> exc, out |-> Nothing, trace |-> trace]

\* tf.sequence_mask(lengths, maxlen) for one row: position t (0-based) is
\* valid iff t < length
sequence_mask(length, maxlen) == [t \in 1..maxlen |-> (t - 1) < length]

\* tf.to_float of a boolean
to_float(b) == IF b THEN 1 ELSE 0

----------------------------------------------------------------------------
(* SequencePoolingLayer *)

SPL == "SequencePoolingLayer"

PoolModes == {"sum", "mean", "max"}

\* 1 / self.eps: eps = 1e-8 is kept as the exact rational 1 / EpsInv
EpsInv == 100000000

\* SequencePoolingLayer.__init__: the attributes it sets, or the exception
SPL_new(a) ==
    IF a.mode \notin PoolModes
    THEN [ok |-> FALSE, exc |-> "ValueError"]
    ELSE [ok |-> TRUE,
          layer |-> [cls |-> SPL, mode |-> a.mode, eps_inv |-> EpsInv,
                     supports_masking |-> a.supports_masking,
                     seq_len_max |-> 0]]

\* SPL_length_mask with the position equal to the length taken as valid
SPL_length_mask_inclusive(l, length) ==
    [t \in 1..l.seq_len_max |-> to_float((t - 1) <= length)]

\* the mask of the explicit-length branch, after the transpose: one entry
\* per time step
SPL_length_mask(l, length) ==
    [t \in 1..l.seq_len_max |-> to_float(sequence_mask(length, l.seq_len_max)[t])]

\* the mask of the upstream-mask branch
SPL_upstream_mask(mask) == [t \in 1..Len(mask.m) |-> to_float(mask.m[t])]

\* SPL_masked without the multiplication by the mask
SPL_masked_skipped(seq, fmask) == seq

\* uiseq_embed_list *= mask, the mask tiled over the embedding axis
SPL_masked(seq, fmask) ==
    [t \in 1..Len(seq) |-> [e \in 1..Len(seq[t]) |-> seq[t][e] * fmask[t]]]

\* tf.reduce_max(hist, 1, keep_dims=True)
SPL_reduce_max(hist) ==
    [e \in 1..Len(hist[1]) |-> MaxUpTo([t \in 1..Len(hist) |-> hist[t][e]], Len(hist))]

\* tf.reduce_sum(hist, 1)
SPL_reduce_sum(hist) ==
    [e \in 1..Len(hist[1]) |-> SumUpTo([t \in 1..Len(hist) |-> hist[t][e]], Len(hist))]

\* tf.div(hist, user_behavior_length + eps) as the exact rational num / den
SPL_div(hist, length, eps_inv) ==
    [e \in 1..Len(hist) |-> [num |-> hist[e] * eps_inv, den |-> length * eps_inv + 1]]

\* the pooling of lines 60-75, given the float mask and the length
SPL_pool(l, seq, fmask, length) ==
    LET hist == SPL_masked(seq, fmask) IN
    IF l.mode = "max"
    THEN Returned(SPL_reduce_max(hist), <<"mask", "multiply", "reduce_max">>)
    ELSE IF l.mode = "mean"
         THEN Returned(SPL_div(SPL_reduce_sum(hist), length, l.eps_inv),
                       <<"mask", "multiply", "reduce_sum", "div">>)
         ELSE Returned(SPL_reduce_sum(hist), <<"mask", "multiply", "reduce_sum">>)

\* SPL_call_result without the test for a missing mask: a missing mask is
\* read as one that keeps every position
SPL_call_result_unchecked(l, in, mask) ==
    IF l.supports_masking
    THEN LET fmask == IF mask.present THEN SPL_upstream_mask(mask)
                      ELSE [t \in 1..Len(in.seq) |-> 1] IN
         SPL_pool(l, in.seq, fmask, SumUpTo(fmask, Len(fmask)))
    ELSE SPL_pool(l, in.seq, SPL_length_mask(l, in.length), in.length)

\* SequencePoolingLayer.call
SPL_call_result(l, in, mask) ==
    IF l.supports_masking
    THEN IF ~mask.present
         THEN Raised("ValueError", <<>>)
         ELSE LET fmask == SPL_upstream_mask(mask) IN
              SPL_pool(l, in.seq, fmask, SumUpTo(fmask, Len(fmask)))
    ELSE SPL_pool(l, in.seq, SPL_length_mask(l, in.length), in.length)

SPL_init ==
    /\ pc = "new"
    /\ \E mode \in PoolModes \cup {"min"}, sm \in BOOLEAN :
         LET a == [cls |-> SPL, mode |-> mode, supports_masking |-> sm]
             r == SPL_new(a) IN
         /\ args' = a
         /\ IF r.ok
            THEN /\ pc' = "constructed"
                 /\ layer' = r.layer
                 /\ result' = Nothing
            ELSE /\ pc' = "raised"
                 /\ layer' = Nothing
                 /\ result' = Raised(r.exc, <<>>)
    /\ UNCHANGED <<inputs, frame>>

\* SequencePoolingLayer.build: input_shape is [(None,T,E),(None,1)] in the
\* explicit-length mode and (None,T,E) in the upstream-mask mode
SPL_build ==
    /\ pc = "constructed"
    /\ layer.cls = SPL
    /\ \E T \in 1..MaxLen, E \in EmbDims :
         /\ frame' = [T |-> T, E |-> E]
         /\ layer' = IF ~layer.supports_masking
                     THEN [layer EXCEPT !.seq_len_max = T]
                     ELSE layer
    /\ pc' = "built"
    /\ UNCHANGED <<args, inputs, result>>

SPL_call ==
    /\ pc = "built"
    /\ layer.cls = SPL
    /\ \E seq \in Tensors(frame.T, frame.E, SeqVals),
          length \in 0..(frame.T + 1),
          mask \in Masks(frame.T) \cup {NoMask} :
         \* the length tensor exists in the explicit-length mode only, and an
         \* upstream mask of that mode is the one Keras derives from it
         /\ layer.supports_masking => length = 0
         /\ ~layer.supports_masking =>
                mask \in {NoMask, [present |-> TRUE, m |-> sequence_mask(length, frame.T)]}
         /\ inputs' = [seq |-> seq, length |-> length, mask |-> mask]
         /\ result' = SPL_call_result(layer, inputs', mask)
         /\ pc' = IF result'.raised = "" THEN "returned" ELSE "raised"
    /\ UNCHANGED <<args, layer, frame>>

----------------------------------------------------------------------------
(* Numbers of the attention layers *)

\* Scores are integers wider than TLC's: hi * Limb + lo with 0 <= lo < Limb
Limb == 2 ^ 16

ToWide(n) == [hi |-> n \div Limb, lo |-> n % Limb]

WSub(a, b) ==
    IF a.lo >= b.lo
    THEN [hi |-> a.hi - b.hi, lo |-> a.lo - b.lo]
    ELSE [hi |-> a.hi - b.hi - 1, lo |-> a.lo - b.lo + Limb]

WLeq(a, b) == a.hi < b.hi \/ (a.hi = b.hi /\ a.lo <= b.lo)

WMax(a, b) == IF WLeq(b, a) THEN a ELSE b

RECURSIVE WMaxUpTo(_, _)
WMaxUpTo(f, n) == IF n = 1 THEN f[1] ELSE WMax(WMaxUpTo(f, n - 1), f[n])

\* -2 ** 32 + 1
Paddings == [hi |-> -Limb, lo |-> 1]

\* exp in fixed point: ExpOne stands for 1.0, ExpInvE for exp(-1)
ExpOne == 2 ^ 16
ExpInvE == 24109
\* float32 exp(x) is 0 for every x below -ExpUnderflow
ExpUnderflow == 104

RECURSIVE ExpFix(_)
\* exp(-n) for a small n >= 0
ExpFix(n) == IF n = 0 THEN ExpOne ELSE (ExpFix(n - 1) * ExpInvE) \div ExpOne

\* exp(d) for a wide d <= 0
WExp(d) ==
    IF WLeq(d, ToWide(-ExpUnderflow - 1))
    THEN 0
    ELSE ExpFix(-(d.hi * Limb + d.lo))

\* tf.nn.softmax over the time axis: weight t is the rational num / den
softmax(x) ==
    LET n == Len(x)
        m == WMaxUpTo(x, n)
        e == [t \in 1..n |-> WExp(WSub(x[t], m))]
        total == SumUpTo(e, n)
    IN [t \in 1..n |-> [num |-> e[t], den |-> total]]

\* tf.matmul(outputs, keys): (1, T) x (T, E), the weights sharing `den`
matmul(w, keys) ==
    [e \in 1..Len(keys[1]) |->
        [num |-> SumUpTo([t \in 1..Len(keys) |-> w[t].num * keys[t][e]], Len(keys)),
         den |-> w[1].den]]

----------------------------------------------------------------------------
(* AttentionSequencePoolingLayer *)

ASPL == "AttentionSequencePoolingLayer"

\* AttentionSequencePoolingLayer.__init__
ASPL_new(a) ==
    [ok |-> TRUE,
     layer |-> [cls |-> ASPL, hidden_size |-> a.hidden_size,
                activation |-> a.activation,
                weight_normalization |-> a.weight_normalization,
                supports_masking |-> a.supports_masking]]

\* the input shapes build can be handed; the batch dimension None is 0
ASPL_shapes(T, E) ==
    { << <<0, 1, E>>, <<0, T, E>>, <<0, 1>> >>,
      << <<0, 1, E>>, <<0, T, E>> >>,
      << <<0, 1, E>>, <<0, T, E>>, <<0>> >>,
      << <<0, 1, E + 1>>, <<0, T, E>>, <<0, 1>> >>,
      << <<0, 2, E>>, <<0, T, E>>, <<0, 1>> >> }

\* AttentionSequencePoolingLayer.build: "" or the exception it raises.  The
\* last message is formatted with a list where a tuple is needed, which
\* raises TypeError in place of the ValueError
ASPL_build_error(l, input_shape) ==
    IF l.supports_masking THEN ""
    ELSE IF Len(input_shape) # 3 THEN "ValueError"
    ELSE IF Len(input_shape[1]) # 3 \/ Len(input_shape[2]) # 3
            \/ Len(input_shape[3]) # 2 THEN "ValueError"
    ELSE IF input_shape[1][3] # input_shape[2][3] \/ input_shape[1][2] # 1
            \/ input_shape[3][2] # 1 THEN "TypeError"
    ELSE ""

\* key_masks of the two branches of call
ASPL_key_masks(l, in, mask) ==
    IF l.supports_masking
    THEN mask.m
    ELSE sequence_mask(in.keys_length, Len(in.keys))

\* ASPL_paddings with the zero fill in both branches
ASPL_paddings_zero(l) == ToWide(0)

\* paddings: the fill of the masked positions
ASPL_paddings(l) == IF l.weight_normalization THEN Paddings ELSE ToWide(0)

\* where that keeps the score of every position
where_unfilled(key_masks, outputs, paddings) == outputs

\* tf.where(key_masks, outputs, paddings)
where(key_masks, outputs, paddings) ==
    [t \in 1..Len(outputs) |-> IF key_masks[t] THEN outputs[t] ELSE paddings]

\* the attention weights that multiply the keys (lines 166-176)
ASPL_weights(l, in, key_masks) ==
    LET outputs == [t \in 1..Len(in.score) |-> ToWide(in.score[t])]
        filled == where(key_masks, outputs, ASPL_paddings(l))
    IN IF l.weight_normalization
       THEN softmax(filled)
       ELSE [t \in 1..Len(filled) |-> [num |-> filled[t].hi * Limb + filled[t].lo, den |-> 1]]

\* AttentionSequencePoolingLayer.call; in.score is what LocalActivationUnit
\* returned for [queries, keys]
ASPL_call_result(l, in, mask) ==
    IF l.supports_masking /\ ~mask.present
    THEN [raised |-> "ValueError", out |-> Nothing, trace |-> <<>>, weights |-> <<>>]
    ELSE LET w == ASPL_weights(l, in, ASPL_key_masks(l, in, mask)) IN
         [raised |-> "", out |-> matmul(w, in.keys),
          trace |-> <<"mask", "score", "where">>
                    \o (IF l.weight_normalization THEN <<"softmax">> ELSE <<>>)
                    \o <<"matmul">>,
          weights |-> w]

ASPL_init ==
    /\ pc = "new"
    /\ \E hs \in HiddenSizes, act \in Activations, wn \in BOOLEAN, sm \in BOOLEAN :
         LET a == [cls |-> ASPL, hidden_size |-> hs, activation |-> act,
                   weight_normalization |-> wn, supports_masking |-> sm] IN
         /\ args' = a
         /\ layer' = ASPL_new(a).layer
    /\ pc' = "constructed"
    /\ result' = Nothing
    /\ UNCHANGED <<inputs, frame>>

ASPL_build ==
    /\ pc = "constructed"
    /\ layer.cls = ASPL
    /\ \E T \in 1..MaxLen, E \in EmbDims :
       \E shape \in ASPL_shapes(T, E) :
         \* the masked mode is called on [query, keys]
         /\ layer.supports_masking => Len(shape) = 2
         /\ frame' = [T |-> T, E |-> E]
         /\ LET err == ASPL_build_error(layer, shape) IN
            IF err = ""
            THEN pc' = "built" /\ result' = Nothing
            ELSE pc' = "raised" /\ result' = Raised(err, <<>>)
    /\ UNCHANGED <<args, layer, inputs>>

ASPL_call ==
    /\ pc = "built"
    /\ layer.cls = ASPL
    /\ \E keys \in Tensors(frame.T, frame.E, KeyVals),
          score \in [1..frame.T -> ScoreVals],
          keys_length \in 0..(frame.T + 1),
          mask \in Masks(frame.T) \cup {NoMask} :
         /\ layer.supports_masking => keys_length = 0
         /\ ~layer.supports_masking => mask = NoMask
         /\ inputs' = [keys |-> keys, score |-> score, keys_length |-> keys_length,
                       mask |-> mask]
         /\ result' = ASPL_call_result(layer, inputs', mask)
         /\ pc' = IF result'.raised = "" THEN "returned" ELSE "raised"
    /\ UNCHANGED <<args, layer, frame>>

----------------------------------------------------------------------------
(* BiLSTM *)

BiLSTM == "BiLSTM"

MergeModes == {"fw", "bw", "sum", "mul", "ave", "concat", PyNone}

\* BiLSTM.__init__
BiLSTM_new(a) ==
    IF a.merge_mode \notin MergeModes
    THEN [ok |-> FALSE, exc |-> "ValueError"]
    ELSE [ok |-> TRUE,
          layer |-> [cls |-> BiLSTM, units |-> a.units, layers |-> a.layers,
                     res_layers |-> a.res_layers, dropout |-> a.dropout,
                     merge_mode |-> a.merge_mode, supports_masking |-> TRUE,
                     fw_lstm |-> <<>>, bw_lstm |-> <<>>]]

\* the recurrent cells reduce modulo LstmMod
LstmMod == 3

\* One step of the recurrent cell of the LSTM `cell`: the next output from
\* the previous one and the input vector.  The learned cell is an arbitrary
\* function of the two; each LSTM of the stack has its own (cell.seed).
LstmStep(cell, h, x) ==
    [u \in 1..cell.units |-> (h[u] + SumUpTo(x, Len(x)) + u + cell.seed) % LstmMod]

RECURSIVE LstmRun(_, _, _)
\* the outputs after feeding xs[1..n] in this order, one per step
LstmRun(cell, xs, n) ==
    IF n = 0 THEN <<>>
    ELSE LET prev == LstmRun(cell, xs, n - 1)
             h == IF n = 1 THEN [u \in 1..cell.units |-> 0] ELSE prev[n - 1]
         IN Append(prev, LstmStep(cell, h, xs[n]))

\* K.reverse(x, 1): reversal of the time axis
reverse(x) == [t \in 1..Len(x) |-> x[Len(x) + 1 - t]]

\* LSTM(units, return_sequences=True, go_backwards=...)(x): a backward LSTM
\* reads the sequence from its end and returns its outputs in reading order
LSTM(cell, x) ==
    IF cell.go_backwards
    THEN LstmRun(cell, reverse(x), Len(x))
    ELSE LstmRun(cell, x, Len(x))

Width(x) == Len(x[1])

\* whether a + b is defined for two (T, w) tensors: equal widths, or one of
\* them 1 (broadcast)
CanAdd(a, b) == Width(a) = Width(b) \/ Width(a) = 1 \/ Width(b) = 1

\* a + b with broadcasting along the last axis
Add(a, b) ==
    LET w == Max(Width(a), Width(b)) IN
    [t \in 1..Len(a) |->
        [u \in 1..w |-> a[t][IF Width(a) = 1 THEN 1 ELSE u]
                        + b[t][IF Width(b) = 1 THEN 1 ELSE u]]]

\* IsResidual with a strict comparison
IsResidual_strict(l, i) == i > l.layers - l.res_layers

\* the test of line 261: level i carries a residual connection
IsResidual(l, i) == i >= l.layers - l.res_layers

\* the merge of lines 271-284
BiLSTM_merge(l, output_fw, output_bw) ==
    LET T == Len(output_fw)
        w == Width(output_fw) IN
    CASE l.merge_mode = "fw" -> output_fw
      [] l.merge_mode = "bw" -> output_bw
      [] l.merge_mode = "concat" ->
            [t \in 1..T |-> output_fw[t] \o output_bw[t]]
      [] l.merge_mode = "sum" -> Add(output_fw, output_bw)
      [] l.merge_mode = "ave" ->
            [t \in 1..T |-> [u \in 1..w |->
                [num |-> output_fw[t][u] + output_bw[t][u], den |-> 2]]]
      [] l.merge_mode = "mul" ->
            [t \in 1..T |-> [u \in 1..w |-> output_fw[t][u] * output_bw[t][u]]]
      [] l.merge_mode = PyNone -> <<output_fw, output_bw>>

\* BiLSTM.compute_output_shape
BiLSTM_output_shape(l, input_shape) ==
    IF l.merge_mode = PyNone
    THEN <<input_shape, input_shape>>
    ELSE IF l.merge_mode = "concat"
         THEN SubSeq(input_shape, 1, Len(input_shape) - 1)
              \o <<input_shape[Len(input_shape)] * 2>>
         ELSE input_shape

BiLSTM_init ==
    /\ pc = "new"
    /\ \E units \in 1..MaxUnits, layers \in 1..MaxLayers,
          res_layers \in 0..(MaxLayers + 1), dropout \in Dropouts,
          merge_mode \in MergeModes \cup {"max"} :
         LET a == [cls |-> BiLSTM, units |-> units, layers |-> layers,
                   res_layers |-> res_layers, dropout |-> dropout,
                   merge_mode |-> merge_mode]
             r == BiLSTM_new(a) IN
         /\ args' = a
         /\ IF r.ok
            THEN /\ pc' = "constructed"
                 /\ layer' = r.layer
                 /\ result' = Nothing
            ELSE /\ pc' = "raised"
                 /\ layer' = Nothing
                 /\ result' = Raised(r.exc, <<>>)
    /\ UNCHANGED <<inputs, frame>>

\* BiLSTM.build: one forward and one backward LSTM per level
BiLSTM_build ==
    /\ pc = "constructed"
    /\ layer.cls = BiLSTM
    /\ \E D \in 1..MaxUnits :
       \E shape \in {<<0, Timesteps, D>>, <<0, D>>} :
         /\ frame' = [input_shape |-> shape]
         /\ IF Len(shape) # 3
            THEN /\ pc' = "raised"
                 /\ result' = Raised("ValueError", <<>>)
                 /\ layer' = layer
            ELSE /\ pc' = "built"
                 /\ result' = Nothing
                 /\ layer' = [layer EXCEPT
                       !.fw_lstm = [i \in 1..layer.layers |->
                           [units |-> layer.units, go_backwards |-> FALSE,
                            seed |-> 2 * i]],
                       !.bw_lstm = [i \in 1..layer.layers |->
                           [units |-> layer.units, go_backwards |-> TRUE,
                            seed |-> 2 * i + 1]]]
    /\ UNCHANGED <<args, inputs>>

\* the inputs a BiLSTM is called on: at each time step one value of
\* LstmVals across the whole width
LstmInputs(T, D) == {[t \in 1..T |-> [u \in 1..D |-> a[t]]] : a \in [1..T -> LstmVals]}

\* BiLSTM.call, lines 253-254: both streams start from the input
BiLSTM_call ==
    /\ pc = "built"
    /\ layer.cls = BiLSTM
    /\ \E x \in LstmInputs(frame.input_shape[2], frame.input_shape[3]) :
         /\ inputs' = x
         /\ frame' = [input_shape |-> frame.input_shape, i |-> 0,
                      input_fw |-> x, input_bw |-> x, res_at |-> {},
                      output_shape |-> Nothing]
    /\ pc' = "loop"
    /\ UNCHANGED <<args, layer, result>>

\* one pass of the loop of lines 255-265; res_at collects the levels whose
\* += ran
BiLSTM_level ==
    /\ pc = "loop"
    /\ frame.i < layer.layers
    /\ LET i == frame.i
           output_fw == LSTM(layer.fw_lstm[i + 1], frame.input_fw)
           output_bw == reverse(LSTM(layer.bw_lstm[i + 1], frame.input_bw))
       IN IF IsResidual(layer, i)
          THEN IF CanAdd(output_fw, frame.input_fw)
               THEN /\ frame' = [frame EXCEPT
                          !.i = i + 1,
                          !.input_fw = Add(output_fw, frame.input_fw),
                          !.input_bw = Add(output_bw, frame.input_bw),
                          !.res_at = @ \cup {i}]
                    /\ pc' = "loop"
                    /\ result' = result
               ELSE /\ frame' = [frame EXCEPT !.res_at = @ \cup {i}]
                    /\ pc' = "raised"
                    /\ result' = Raised("ValueError", <<"lstm", "add">>)
          ELSE /\ frame' = [frame EXCEPT !.i = i + 1, !.input_fw = output_fw,
                                         !.input_bw = output_bw]
               /\ pc' = "loop"
               /\ result' = result
    /\ UNCHANGED <<args, layer, inputs>>

\* lines 267-286: the merge of the two streams and the return
BiLSTM_return ==
    /\ pc = "loop"
    /\ frame.i = layer.layers
    /\ result' = Returned(BiLSTM_merge(layer, frame.input_fw, frame.input_bw),
                          <<"lstm", "merge">>)
    /\ pc' = "returned"
    /\ UNCHANGED <<args, layer, inputs, frame>>

\* compute_output_shape for the shape of the input that was passed
BiLSTM_compute_output_shape ==
    /\ pc = "returned"
    /\ layer.cls = BiLSTM
    /\ frame' = [frame EXCEPT !.output_shape = BiLSTM_output_shape(layer, frame.input_shape)]
    /\ pc' = "reported"
    /\ UNCHANGED <<args, layer, inputs, result>>

----------------------------------------------------------------------------
(* AttentionSequencePoolingLayerv2 *)

V2 == "AttentionSequencePoolingLayerv2"

\* sim_type values the call has a branch for
SimTypes == {"nn", "mat", "cos"}

\* AttentionSequencePoolingLayerv2.__init__
V2_new(a) ==
    [ok |-> TRUE,
     layer |-> [cls |-> V2, hidden_size |-> a.hidden_size,
                activation |-> a.activation,
                weight_normalization |-> a.weight_normalization,
                sim_type |-> a.sim_type]]

\* A score is the real number num / sqrt(densq), densq > 0
Real(n) == [num |-> n, densq |-> 1]

Dot(x, y) == SumUpTo([e \in 1..Len(x) |-> x[e] * y[e]], Len(x))

\* K.l2_normalize(x, axis=-1): x / sqrt(max(sum(x^2), 1e-12)), kept as the
\* vector and the square of its divisor.  The entries are integers, so the
\* floor matters for the zero vector only, which stays zero whatever the
\* positive divisor; 1 stands for it.
l2_normalize(x) == [vec |-> x, nsq |-> Max(Dot(x, x), 1)]

\* K.mean(x * y, axis=-1, keepdims=True) of two normalised vectors
mean_product(x, y) ==
    [num |-> Dot(x.vec, y.vec),
     densq |-> x.nsq * y.nsq * Len(x.vec) * Len(x.vec)]

\* cosine_distance of lines 385-389
cosine_distance(x, y) == mean_product(l2_normalize(x), l2_normalize(y))

\* the score of lines 395-397: the query repeated along the time axis
V2_cos_score(in) ==
    [t \in 1..Len(in.keys) |-> cosine_distance(in.queries, in.keys[t])]

\* paddings of lines 407-410
V2_paddings(l) == IF l.weight_normalization THEN Paddings ELSE ToWide(0)

\* lines 403-418: mask fill, division by sqrt(embedding width), and the
\* softmax, which is left unevaluated (softmax |-> TRUE)
V2_finish(l, in, attention_score) ==
    LET key_masks == sequence_mask(in.keys_length, Len(in.keys))
        E == Len(in.keys[1])
    IN [softmax |-> l.weight_normalization,
        logits |-> [t \in 1..Len(in.keys) |->
            IF key_masks[t]
            THEN [valid |-> TRUE, num |-> attention_score[t].num,
                  densq |-> attention_score[t].densq * E]
            ELSE [valid |-> FALSE, fill |-> V2_paddings(l), densq |-> E]]]

\* AttentionSequencePoolingLayerv2.call.  NaiveActivationUnit is defined
\* nowhere in the module, and a sim_type without a branch leaves
\* attention_score unbound at line 403.
V2_call_result(l, in) ==
    IF l.sim_type = "nn"
    THEN LET sc == [t \in 1..Len(in.score) |-> Real(in.score[t])] IN
         [raised |-> "", out |-> V2_finish(l, in, sc),
          trace |-> <<"score", "where", "scale">>, attention_score |-> sc]
    ELSE IF l.sim_type = "mat"
    THEN [raised |-> "NameError", out |-> Nothing, trace |-> <<>>,
          attention_score |-> <<>>]
    ELSE IF l.sim_type = "cos"
    THEN LET sc == V2_cos_score(in) IN
         [raised |-> "", out |-> V2_finish(l, in, sc),
          trace |-> <<"cos", "where", "scale">>, attention_score |-> sc]
    ELSE [raised |-> "UnboundLocalError", out |-> Nothing, trace |-> <<>>,
          attention_score |-> <<>>]

V2_init ==
    /\ pc = "new"
    /\ \E hs \in HiddenSizes, act \in Activations, wn \in BOOLEAN,
          st \in SimTypes \cup {"dot"} :
         LET a == [cls |-> V2, hidden_size |-> hs, activation |-> act,
                   weight_normalization |-> wn, sim_type |-> st] IN
         /\ args' = a
         /\ layer' = V2_new(a).layer
    /\ pc' = "constructed"
    /\ result' = Nothing
    /\ UNCHANGED <<inputs, frame>>

\* AttentionSequencePoolingLayerv2.build checks nothing
V2_build ==
    /\ pc = "constructed"
    /\ layer.cls = V2
    /\ \E T \in 1..MaxLen, E \in EmbDims : frame' = [T |-> T, E |-> E]
    /\ pc' = "built"
    /\ UNCHANGED <<args, layer, inputs, result>>

Ones(n) == [e \in 1..n |-> 1]

V2_call ==
    /\ pc = "built"
    /\ layer.cls = V2
    /\ \E queries \in Vectors(frame.E, KeyVals),
          keys \in Tensors(frame.T, frame.E, KeyVals),
          score \in [1..frame.T -> ScoreVals],
          keys_length \in 0..(frame.T + 1) :
         \* the scoring network's result is read by the nn branch only, and
         \* the entries of queries and keys by the cos branch only
         /\ layer.sim_type # "nn" => score = [t \in 1..frame.T |-> 1]
         /\ layer.sim_type # "cos" =>
                /\ queries = Ones(frame.E)
                /\ keys = [t \in 1..frame.T |-> Ones(frame.E)]
         /\ inputs' = [queries |-> queries, keys |-> keys, score |-> score,
                       keys_length |-> keys_length]
         /\ result' = V2_call_result(layer, inputs')
         /\ pc' = IF result'.raised = "" THEN "returned" ELSE "raised"
    /\ UNCHANGED <<args, layer, frame>>

----------------------------------------------------------------------------
(* get_config and the construction of a layer from a configuration *)

\* get_config of the four classes: the base Layer's entries and the layer's
get_config_of(l) ==
    CASE l.cls = SPL ->
            [name |-> "sequence_pooling_layer", trainable |-> TRUE,
             mode |-> l.mode, supports_masking |-> l.supports_masking]
      [] l.cls = ASPL ->
            [name |-> "attention_sequence_pooling_layer", trainable |-> TRUE,
             hidden_size |-> l.hidden_size, activation |-> l.activation,
             weight_normalization |-> l.weight_normalization,
             supports_masking |-> l.supports_masking]
      [] l.cls = BiLSTM ->
            [name |-> "bi_lstm", trainable |-> TRUE,
             units |-> l.units, layers |-> l.layers,
             res_layers |-> l.res_layers, dropout |-> l.dropout,
             merge_mode |-> l.merge_mode]
      [] l.cls = V2 ->
            [name |-> "attention_sequence_pooling_layerv2", trainable |-> TRUE,
             hidden_size |-> l.hidden_size, activation |-> l.activation,
             weight_normalization |-> l.weight_normalization]

\* config[k] where the configuration has the key, else __init__'s default
Arg(config, k, default) == IF k \in DOMAIN config THEN config[k] ELSE default

\* cls(**config): the constructor applied to the entries of a configuration
from_config_of(cls, config) ==
    CASE cls = SPL ->
            SPL_new([cls |-> SPL, mode |-> Arg(config, "mode", "mean"),
                     supports_masking |-> Arg(config, "supports_masking", FALSE)])
      [] cls = ASPL ->
            ASPL_new([cls |-> ASPL,
                      hidden_size |-> Arg(config, "hidden_size", <<80, 40>>),
                      activation |-> Arg(config, "activation", "sigmoid"),
                      weight_normalization |-> Arg(config, "weight_normalization", FALSE),
                      supports_masking |-> Arg(config, "supports_masking", FALSE)])
      [] cls = BiLSTM ->
            BiLSTM_new([cls |-> BiLSTM, units |-> config.units,
                        layers |-> Arg(config, "layers", 2),
                        res_layers |-> Arg(config, "res_layers", 0),
                        dropout |-> Arg(config, "dropout", 2),
                        merge_mode |-> Arg(config, "merge_mode", "ave")])
      [] cls = V2 ->
            V2_new([cls |-> V2,
                    hidden_size |-> Arg(config, "hidden_size", <<80, 40>>),
                    activation |-> Arg(config, "activation", "sigmoid"),
                    weight_normalization |-> Arg(config, "weight_normalization", TRUE),
                    sim_type |-> Arg(config, "sim_type", "nn")])

get_config ==
    /\ pc = "constructed"
    /\ result' = Returned(get_config_of(layer), <<>>)
    /\ pc' = "config"
    /\ UNCHANGED <<args, layer, inputs, frame>>

\* a new layer of the same class is constructed from the configuration
from_config ==
    /\ pc = "config"
    /\ layer' = from_config_of(layer.cls, result.out).layer
    /\ pc' = "restored"
    /\ UNCHANGED <<args, inputs, frame, result>>

----------------------------------------------------------------------------

Init ==
    /\ pc = "new"
    /\ args = Nothing
    /\ layer = Nothing
    /\ inputs = Nothing
    /\ frame = Nothing
    /\ result = Nothing

Next ==
    \/ SPL_init
    \/ SPL_build
    \/ SPL_call
    \/ ASPL_init
    \/ ASPL_build
    \/ ASPL_call
    \/ BiLSTM_init
    \/ BiLSTM_build
    \/ BiLSTM_call
    \/ BiLSTM_level
    \/ BiLSTM_return
    \/ BiLSTM_compute_output_shape
    \/ V2_init
    \/ V2_build
    \/ V2_call
    \/ get_config
    \/ from_config

Spec == Init /\ [][Next]_vars

----------------------------------------------------------------------------
(* Properties of SequencePoolingLayer *)

\* a call of the layer of class cls was made and ended
Called(cls) ==
    /\ pc \in {"returned", "raised"}
    /\ args.cls = cls
    /\ "none" \notin DOMAIN inputs

\* position t (1-based) of the row is valid for the call that was made
SPL_valid(t) ==
    IF layer.supports_masking THEN inputs.mask.m[t] ELSE (t - 1) < inputs.length

RECURSIVE SumFirst(_, _, _)
\* coordinate e summed over the first n positions
SumFirst(seq, n, e) == IF n = 0 THEN 0 ELSE SumFirst(seq, n - 1, e) + seq[n][e]

\* values a padding position is overwritten with
PadVals == SeqVals \cup {7}

\* C1: for a row whose length is in [0, max_length], sum pooling in the
\* explicit-length mode returns, per coordinate, the sum of the first
\* `length` positions, and the output is the same when a position at or
\* beyond `length` holds any other vector.
C1_SumOfValidPrefix ==
    (/\ Called(SPL) /\ pc = "returned"
     /\ layer.mode = "sum" /\ ~layer.supports_masking
     /\ inputs.length \in 0..frame.T)
    => /\ \A e \in 1..frame.E :
            result.out[e] = SumFirst(inputs.seq, inputs.length, e)
       /\ \A t \in (inputs.length + 1)..frame.T : \A v \in Vectors(frame.E, PadVals) :
            SPL_call_result(layer, [inputs EXCEPT !.seq[t] = v], inputs.mask).out
                = result.out

\* a row of length 1 with a non-zero padding position was summed
C1_Witness ==
    /\ Called(SPL) /\ pc = "returned"
    /\ layer.mode = "sum" /\ ~layer.supports_masking
    /\ frame.T = 2 /\ inputs.length = 1
    /\ inputs.seq[1][1] = 1 /\ inputs.seq[2][1] = -1
    /\ result.out[1] = 1

\* the call pooled with max a row with at least one valid position, whose
\* valid positions all hold the same vector
C2_Case ==
    /\ Called(SPL) /\ pc = "returned" /\ layer.mode = "max"
    /\ layer.supports_masking \/ inputs.length \in 1..frame.T
    /\ \E t \in 1..frame.T : SPL_valid(t)
    /\ \A t, u \in 1..frame.T :
         SPL_valid(t) /\ SPL_valid(u) => inputs.seq[t] = inputs.seq[u]

\* the vector the valid positions hold
C2_Value == inputs.seq[CHOOSE t \in 1..frame.T : SPL_valid(t)]

\* all the valid entries of coordinate e are strictly positive
C2_Positive(e) == \A t \in 1..frame.T : SPL_valid(t) => inputs.seq[t][e] > 0

\* the largest valid entry of coordinate e
C2_MaxValid(e) ==
    CHOOSE m \in SeqVals :
        /\ \E t \in 1..frame.T : SPL_valid(t) /\ inputs.seq[t][e] = m
        /\ \A t \in 1..frame.T : SPL_valid(t) => inputs.seq[t][e] <= m

\* C2 as stated: max pooling over a row whose valid positions all hold the
\* same value returns that value, whatever the value and the length in
\* [1, max_length].
C2_Original == C2_Case => result.out = C2_Value

\* C2 amended: the common value is returned when it is >= 0 or the row has
\* no padding position, and 0 (the zeroed padding) otherwise; and on any
\* row whose valid entries are all strictly positive the result is the
\* largest valid entry, never the zero of a padding position.
C2_MaxOfSameValue ==
    /\ C2_Case =>
          \A e \in 1..frame.E :
             result.out[e] =
                IF C2_Value[e] >= 0 \/ \A t \in 1..frame.T : SPL_valid(t)
                THEN C2_Value[e] ELSE 0
    /\ (/\ Called(SPL) /\ pc = "returned" /\ layer.mode = "max"
        /\ layer.supports_masking \/ inputs.length \in 1..frame.T
        /\ \E t \in 1..frame.T : SPL_valid(t))
       => \A e \in 1..frame.E :
             C2_Positive(e) => result.out[e] = C2_MaxValid(e) /\ result.out[e] > 0

\* a row of length 1 holding 1, followed by a padding position, pooled to 1
C2_Witness ==
    /\ C2_Case /\ ~layer.supports_masking
    /\ frame.T = 2 /\ inputs.length = 1
    /\ inputs.seq[1][1] = 1 /\ inputs.seq[2][1] = 1
    /\ result.out[1] = 1

----------------------------------------------------------------------------
(* Properties of AttentionSequencePoolingLayer *)

\* position t (1-based) of the keys is valid for the call that was made
ASPL_valid(t) ==
    IF layer.supports_masking THEN inputs.mask.m[t] ELSE (t - 1) < inputs.keys_length

\* 1 / machine epsilon of float32
F32EpsInv == 2 ^ 23

\* the weights of the valid positions sum to 1 and no invalid position
\* weighs more than machine epsilon
C3_Normalised ==
    /\ SumUpTo([t \in 1..frame.T |->
                  IF ASPL_valid(t) THEN result.weights[t].num ELSE 0], frame.T)
         = result.weights[1].den
    /\ \A t \in 1..frame.T :
         ~ASPL_valid(t) =>
            result.weights[t].num <= result.weights[t].den \div F32EpsInv

\* C3 as stated: with weight_normalization=True, for every key-length in
\* [0, T] the weights sum to 1 over the valid positions alone and every
\* invalid position weighs at most machine epsilon.
C3_Original ==
    (/\ Called(ASPL) /\ pc = "returned" /\ layer.weight_normalization
     /\ ~layer.supports_masking /\ inputs.keys_length \in 0..frame.T)
    => C3_Normalised

\* C3 amended: the same for every row with at least one valid position
\* (key-length in [1, T]); a row without one spreads the weight evenly over
\* its invalid positions.
C3_WeightsOnValidOnly ==
    /\ (/\ Called(ASPL) /\ pc = "returned" /\ layer.weight_normalization
        /\ \E t \in 1..frame.T : ASPL_valid(t))
       => C3_Normalised
    /\ (/\ Called(ASPL) /\ pc = "returned" /\ layer.weight_normalization
        /\ ~ \E t \in 1..frame.T : ASPL_valid(t))
       => \A t \in 1..frame.T :
             result.weights[t].num * frame.T = result.weights[t].den

\* a normalised call on a row of length 1 out of 2 whose padding score is
\* the larger one
C3_Witness ==
    /\ Called(ASPL) /\ pc = "returned" /\ layer.weight_normalization
    /\ ~layer.supports_masking
    /\ frame.T = 2 /\ inputs.keys_length = 1
    /\ inputs.score = <<-1, 1>>
    /\ result.weights[1].num = result.weights[1].den
    /\ result.weights[2].num = 0

\* the sum over the valid positions of score[t] * keys[t][e]
ValidSum(e) ==
    SumUpTo([t \in 1..frame.T |->
               IF ASPL_valid(t) THEN inputs.score[t] * inputs.keys[t][e] ELSE 0],
            frame.T)

\* some invalid position holds a non-zero key
C10_DirtyPadding ==
    \E t \in 1..frame.T : ~ASPL_valid(t) /\ \E e \in 1..frame.E : inputs.keys[t][e] # 0

\* C10 as stated: with weight_normalization=False a non-zero key at an
\* invalid position contributes to the output, which then differs from the
\* sum over the valid positions of score[t] * keys[t].
C10_Original ==
    (/\ Called(ASPL) /\ pc = "returned" /\ ~layer.weight_normalization
     /\ C10_DirtyPadding)
    => \E e \in 1..frame.E : result.out[e].num # ValidSum(e) * result.out[e].den

\* C10 amended: with weight_normalization=False the score of every invalid
\* position is replaced by 0 before the product with the keys, so the output
\* is the sum over the valid positions of score[t] * keys[t] whatever the
\* keys at the invalid positions hold.
C10_PaddingKeysIgnored ==
    (Called(ASPL) /\ pc = "returned" /\ ~layer.weight_normalization)
    => \A e \in 1..frame.E :
          result.out[e].den = 1 /\ result.out[e].num = ValidSum(e)

\* an unnormalised call whose only valid key is zero and whose padding key
\* is not, with a non-zero score on both
C10_Witness ==
    /\ Called(ASPL) /\ pc = "returned" /\ ~layer.weight_normalization
    /\ ~layer.supports_masking
    /\ frame.T = 2 /\ inputs.keys_length = 1
    /\ inputs.keys[1][1] = 0 /\ inputs.keys[2][1] = 1
    /\ inputs.score = <<1, 1>>
    /\ result.out[1].num = 0

\* C8: a SequencePoolingLayer or AttentionSequencePoolingLayer built with
\* supports_masking=True and called without a mask raises ValueError before
\* any stage of the call ran and returns nothing; with
\* supports_masking=False a call without a mask returns.
C8_MaskRequired ==
    \A cls \in {SPL, ASPL} :
        (Called(cls) /\ ~inputs.mask.present)
        => IF layer.supports_masking
           THEN /\ pc = "raised"
                /\ result.raised = "ValueError"
                /\ result.trace = <<>>
                /\ result.out = Nothing
           ELSE pc = "returned" /\ result.raised = "" /\ result.trace # <<>>

\* a masked attention layer was called without a mask and raised
C8_Witness ==
    /\ Called(ASPL) /\ layer.supports_masking /\ ~inputs.mask.present
    /\ pc = "raised" /\ result.raised = "ValueError"

----------------------------------------------------------------------------
(* Properties of AttentionSequencePoolingLayerv2 *)

\* the real number num / sqrt(densq) is 1, respectively 0
IsOne(r) == r.num > 0 /\ r.num * r.num = r.densq

IsZero(r) == r.num = 0

\* C4: with sim_type=cos the score of a key identical to the non-zero query
\* is 1.0 and the score of a key orthogonal to the query is 0.0, for every
\* embedding width.
C4_CosineScore ==
    (/\ Called(V2) /\ pc = "returned" /\ layer.sim_type = "cos"
     /\ Dot(inputs.queries, inputs.queries) # 0)
    => \A t \in 1..frame.T :
          /\ inputs.keys[t] = inputs.queries => IsOne(result.attention_score[t])
          /\ Dot(inputs.keys[t], inputs.queries) = 0
                => IsZero(result.attention_score[t])

----------------------------------------------------------------------------
(* Properties of the four layers *)

\* the names of the constructor's arguments
CtorArgs == DOMAIN args \ {"cls"}

\* C5: get_config() after construction holds every constructor argument
\* with the value that was passed, and the layer constructed from that
\* configuration has the same arguments and the same configuration.
C5_ConfigRoundTrip ==
    /\ pc \in {"config", "restored"} =>
          \A k \in CtorArgs :
             k \in DOMAIN result.out /\ result.out[k] = args[k]
    /\ pc = "restored" =>
          /\ \A k \in CtorArgs : layer[k] = args[k]
          /\ get_config_of(layer) = result.out

\* the constructor was given an enumerated option outside its allowed set
InvalidOption ==
    /\ pc # "new"
    /\ \/ args.cls = SPL /\ args.mode \notin {"sum", "mean", "max"}
       \/ args.cls = BiLSTM
          /\ args.merge_mode \notin {"fw", "bw", "sum", "mul", "ave", "concat", PyNone}
       \/ args.cls = V2 /\ args.sim_type \notin {"nn", "mat", "cos"}

\* C6: an enumerated option outside its allowed set ends in a configuration
\* error (ValueError) at construction or at the first call: no call returns
\* an output and no other exception is raised.
C6_InvalidOptionRejected ==
    InvalidOption =>
        /\ pc \notin {"returned", "reported"}
        /\ pc = "raised" => result.raised = "ValueError"

----------------------------------------------------------------------------
(* Properties of BiLSTM *)

\* C7: with merge_mode=concat the output is 2 * units wide, in the tensor
\* call returns and in the shape compute_output_shape reports; without merge
\* both tensors are units wide, returned and reported.
C7_OutputWidth ==
    (pc = "reported" /\ args.cls = BiLSTM) =>
        /\ layer.merge_mode = "concat" =>
              /\ Width(result.out) = 2 * layer.units
              /\ frame.output_shape[3] = 2 * layer.units
        /\ layer.merge_mode = PyNone =>
              \A k \in 1..2 :
                 /\ Width(result.out[k]) = layer.units
                 /\ frame.output_shape[k][3] = layer.units

\* the levels within the last res_layers levels of the stack
LastLevels(l) == {j \in 0..(l.layers - 1) : (l.layers - 1) - j < l.res_layers}

Min(a, b) == IF a <= b THEN a ELSE b

\* the call of a BiLSTM is under way or over
InBiLSTMCall ==
    /\ pc \in {"loop", "returned", "reported", "raised"}
    /\ args.cls = BiLSTM
    /\ "i" \in DOMAIN frame

\* a pass of the loop adds the level's input to the forward output and to
\* the re-reversed backward output iff the level is among the last
\* res_layers, and hands each stream its own result
C9_Pass ==
    (pc = "loop" /\ frame.i < layer.layers /\ pc' # "returned") =>
        LET i == frame.i
            fw == LSTM(layer.fw_lstm[i + 1], frame.input_fw)
            bw == reverse(LSTM(layer.bw_lstm[i + 1], frame.input_bw))
        IN IF pc' = "loop"
           THEN /\ frame'.i = i + 1
                /\ frame'.input_fw =
                      IF i \in LastLevels(layer) THEN Add(fw, frame.input_fw) ELSE fw
                /\ frame'.input_bw =
                      IF i \in LastLevels(layer) THEN Add(bw, frame.input_bw) ELSE bw
           ELSE i \in LastLevels(layer) /\ ~CanAdd(fw, frame.input_fw)

\* the levels whose addition ran are the last res_layers levels passed so far
C9_Levels ==
    InBiLSTMCall =>
        /\ frame.res_at = {j \in LastLevels(layer) :
                              j < frame.i \/ (pc = "raised" /\ j = frame.i)}
        /\ pc \in {"returned", "reported"} =>
              Cardinality(frame.res_at) = Min(layer.res_layers, layer.layers)

\* C9: stepping through the levels 0 .. layers-1 of BiLSTM.call, the level's
\* input is added to its output exactly at the last res_layers levels, so at
\* min(res_layers, layers) levels of a call that returns; the addition is
\* made on each stream separately, each stream's next input being its own
\* result, the backward output re-reversed in time before the addition.
C9_ResidualLevels == [] C9_Levels /\ [][C9_Pass]_vars

\* a two-level stack with one residual level returned, its streams differing
C9_Witness ==
    /\ pc = "returned" /\ args.cls = BiLSTM
    /\ layer.layers = 2 /\ layer.res_layers = 1
    /\ frame.res_at = {1}
    /\ frame.input_fw # frame.input_bw

====
